---------------------------- MODULE Spec2Model ----------------------------
(***************************************************************************)
(* A model of the OPA permission client (package opaclient).               *)
(*                                                                         *)
(* One HTTPClient is constructed by NewHTTPClient and then serves query    *)
(* calls, one at a time: QueryPermissions (single resource) and            *)
(* QueryPermissionsMultiResources (filter).  A call either takes the       *)
(* override bypass, or builds its request and runs the transport call      *)
(* inside the bounded retrier (6 s window, 1 s poll interval) until one    *)
(* attempt answers with status 200, and then decodes the body.             *)
(*                                                                         *)
(* Time is counted in whole seconds since the call was entered (now).      *)
(* The OPA server and the network are the environment: every attempt may   *)
(* fail or succeed, with any body of ServerBodies, at once or at the limit *)
(* the HTTP client's request timeout sets.  Further specifications run the *)
(* same steps for two callers: two clients that differ in the verbose flag *)
(* side by side (VerboseSpec), and two callers of one client interleaved   *)
(* (ConcSpec).                                                             *)
(***************************************************************************)
EXTENDS Integers, Sequences, FiniteSets

VARIABLES
    address,              \* HTTPClient.address
    permissionQueryPath,  \* HTTPClient.permissionQueryPath
    permissionFilterPath, \* HTTPClient.permissionFilterPath
    httpClient,           \* HTTPClient.httpClient: its timeout and TLS settings
    overrideHeaderValue,  \* HTTPClient.overrideHeaderValue
    requestTimeout,       \* HTTPClient.requestTimeout, seconds
    verbose,              \* HTTPClient.verbose
    pc,                   \* position of the caller: idle, probe, sleep, done, panicked
    form,                 \* which method is running: "query", "filter" or "none"
    resources,            \* the resources argument (one element for the query form)
    action,               \* the action argument
    permissionOptions,    \* the *PermissionOptions argument (NilOptions for nil)
    ctxCancelled,         \* the call context has been cancelled
    requestURL,           \* the request URL, built before the retry loop
    requestBody,          \* the marshalled request, built before the retry loop
    responseBody,         \* the local responseBody, assigned by every probe
    now,                  \* seconds elapsed since the call was entered
    attempts,             \* probe invocations of this call
    requestsSent,         \* requests this call handed to the transport
    served,               \* the body of the status-200 response this call got
    retBool,              \* returned bool (query form)
    retSlice,             \* returned []bool (filter form)
    retErr,               \* returned error ("nil" for nil)
    logs,                 \* what this call has logged, in order
    sent,                 \* the distinct requests this call handed to the transport
    calls                 \* the calls of the callers that share the client

vars == << address, permissionQueryPath, permissionFilterPath, httpClient,
           overrideHeaderValue, requestTimeout, verbose, pc, form, resources,
           action, permissionOptions, ctxCancelled, requestURL, requestBody,
           responseBody,
           now, attempts, requestsSent, served, retBool, retSlice, retErr,
           logs, sent, calls >>

\* the fields of the client
config == << address, permissionQueryPath, permissionFilterPath, httpClient,
             overrideHeaderValue, requestTimeout, verbose >>

-----------------------------------------------------------------------------
(* Bounds of the model and constants of the program *)

\* longest resources argument a call is given
MaxResources == 2

DefaultRequestTimeOut == 10

\* retryUntilSuccessful(6*time.Second, 1*time.Second, ...)
RetryTimeout == 6

RetryInterval == 1

\* the Action constants
Actions == {"read", "list", "create", "update", "delete"}

\* the actions the modelled calls are given
CallActions == {"read", "delete"}

ResourceIds == {"a", "b"}

\* request timeouts handed to NewHTTPClient: 0 is "not set"
TimeoutArgs == {0, 1}

OverrideValues == {"", "secret"}

OptionOverrideValues == {"", "secret", "other"}

MemberIdChoices == {<< >>, <<"u1">>}

RECURSIVE SeqsUpTo(_, _)
SeqsUpTo(S, n) ==
    IF n = 0 THEN {<< >>}
    ELSE LET shorter == SeqsUpTo(S, n - 1)
         IN  shorter \cup {Append(s, x) : s \in {t \in shorter : Len(t) = n - 1}, x \in S}

ResourceLists == SeqsUpTo(ResourceIds, MaxResources)

Range(s) == {s[i] : i \in 1..Len(s)}

-----------------------------------------------------------------------------
(* Values *)

\* a nil *PermissionOptions
NilOptions ==
    [isNil |-> TRUE, MemberIds |-> << >>, RaiseForbidden |-> FALSE, OverrideHeaderValue |-> ""]

PermissionOptions ==
    [isNil : {FALSE}, MemberIds : MemberIdChoices, RaiseForbidden : {FALSE},
     OverrideHeaderValue : OptionOverrideValues]

\* a nil []bool, as opposed to an empty one
NilSlice == [isNil |-> TRUE, elems |-> << >>]

Slice(s) == [isNil |-> FALSE, elems |-> s]

\* response bodies: nil bytes, {"result": bool}, {"result": [..]}, a JSON object
\* without a result field, and bytes that are not JSON
NoBody == [type |-> "none", b |-> FALSE, list |-> << >>]

BoolBody(v) == [type |-> "bool", b |-> v, list |-> << >>]

ListBody(l) == [type |-> "list", b |-> FALSE, list |-> l]

NoResultBody == [type |-> "noresult", b |-> FALSE, list |-> << >>]

GarbageBody == [type |-> "garbage", b |-> FALSE, list |-> << >>]

\* the allowed subsets the server answers with: in another order than the
\* request's, and with an identifier ("c") no request names
AllowedLists == {<< >>, <<"a">>, <<"b", "a">>, <<"c", "b">>}

ServerBodies ==
    {BoolBody(TRUE), BoolBody(FALSE), NoResultBody, GarbageBody}
        \cup {ListBody(l) : l \in AllowedLists}

\* what a failed attempt leaves in responseBody: nothing (no response at all), or
\* the body that came with a status other than 200
ErrorBodies == {NoBody, BoolBody(TRUE), ListBody(<<"a", "b">>)}

\* the endpoint a client is built for; an address or path is a sequence of segments
Addresses == {<<"http://opa:8181">>}

QueryPaths == {<<"/v1/data/authz/allow">>}

FilterPaths == {<<"/v1/data/authz/filter_allowed">>}

\* fmt.Sprintf("%s%s", address, path)
Sprintf2(a, b) == a \o b

\* the headers of every request
Headers == [ContentType |-> "application/json", UserAgent |-> "UserAgent"]

\* a variant of ProbeRequest that extends the URL on every attempt after the first
ProbeRequestGrowingURL(url, body) ==
    [method |-> "POST", url |-> IF sent = {} THEN url ELSE url \o <<"/retry">>,
     body |-> body, headers |-> Headers,
     cookies |-> << >>, expectedStatus |-> "200"]

\* what the probe hands to sendHTTPRequest: method, URL, body, headers, no cookies
ProbeRequest(url, body) ==
    [method |-> "POST", url |-> url, body |-> body, headers |-> Headers,
     cookies |-> << >>, expectedStatus |-> "200"]

\* &http.Client{Timeout: requestTimeout, Transport: transport}
NewHTTPTransport(timeout, skipTLSVerify) ==
    [Timeout |-> timeout, InsecureSkipVerify |-> skipTLSVerify,
     MinVersion |-> IF skipTLSVerify THEN "TLS13" ELSE "default"]

\* log lines
LogSending == "info: Sending request to OPA"

LogRetrying == "warn: Failed to send HTTP request to OPA, retrying"

LogSendFailed == "error: Failed to send HTTP request to OPA"

LogReceived == "info: Received response from OPA"

LogUnmarshalled == "info: Successfully unmarshalled permission response"

LogSkipping == "info: Skipping permission query"

\* if c.verbose { c.logger... }
WhenVerbose(v, line) == IF v THEN <<line>> ELSE << >>

\* no request has been built
NoRequest == [resources |-> << >>, action |-> "", ids |-> << >>, omitted |-> {}]

NilError == "nil"

ErrSendFailed == "Failed to send HTTP request to OPA"

ErrUnmarshal == "Failed to unmarshal response body"

-----------------------------------------------------------------------------
(* The wire codec *)

\* the JSON fields that omitempty leaves out of a request input
Omitted(res, act, ids, resKey) ==
    (IF res = << >> \/ res = <<"">> THEN {resKey} ELSE {})
        \cup (IF act = "" THEN {"action"} ELSE {})
        \cup (IF ids = << >> THEN {"ids"} ELSE {})

\* json.Marshal(PermissionQueryRequest{Input: {resource, action, ids}})
MarshalQueryRequest(resource, act, ids) ==
    [resources |-> <<resource>>, action |-> act, ids |-> ids,
     omitted |-> Omitted(<<resource>>, act, ids, "resource")]

\* json.Marshal(PermissionFilterRequest{Input: {resources, action, ids}})
MarshalFilterRequest(res, act, ids) ==
    [resources |-> res, action |-> act, ids |-> ids,
     omitted |-> Omitted(res, act, ids, "resources")]

\* a variant of UnmarshalQueryResponse whose missing result counts as an allow
UnmarshalQueryDefaultAllow(body) ==
    CASE body.type = "bool"     -> [err |-> FALSE, Result |-> body.b]
      [] body.type = "noresult" -> [err |-> FALSE, Result |-> TRUE]
      [] OTHER                  -> [err |-> TRUE,  Result |-> FALSE]

\* json.Unmarshal(responseBody, &PermissionQueryResponse{}): a missing result leaves
\* the zero value, a result of another type or bytes that are no JSON are an error
UnmarshalQueryResponse(body) ==
    CASE body.type = "bool"     -> [err |-> FALSE, Result |-> body.b]
      [] body.type = "noresult" -> [err |-> FALSE, Result |-> FALSE]
      [] OTHER                  -> [err |-> TRUE,  Result |-> FALSE]

\* json.Unmarshal(responseBody, &PermissionFilterResponse{}): a missing (or null)
\* result leaves the nil list
UnmarshalFilterResponse(body) ==
    CASE body.type = "list"     -> [err |-> FALSE, Result |-> body.list]
      [] body.type = "noresult" -> [err |-> FALSE, Result |-> << >>]
      [] OTHER                  -> [err |-> TRUE,  Result |-> << >>]

-----------------------------------------------------------------------------
(* The policy client's pure steps *)

\* a variant of OverrideMatches that lost the check for an empty configured value
OverrideMatchesUnguarded(opts) ==
    opts.OverrideHeaderValue = overrideHeaderValue

\* c.overrideHeaderValue != "" && permissionOptions.OverrideHeaderValue == c.overrideHeaderValue
OverrideMatches(opts) ==
    overrideHeaderValue # "" /\ opts.OverrideHeaderValue = overrideHeaderValue

\* the override check dereferences permissionOptions unless && short-circuits
OverrideCheckPanics(opts) ==
    overrideHeaderValue # "" /\ opts.isNil

\* building the request input dereferences permissionOptions (MemberIds)
RequestBuildPanics(opts) ==
    opts.isNil

\* a variant of AllowAll whose loop stops one slot early
AllowAllButLast(n) ==
    [i \in 1..n |-> i < n]

\* make([]bool, n) with every slot then set to true
AllowAll(n) ==
    [i \in 1..n |-> TRUE]

\* a variant of FilterResults that appends one entry per allowed resource
FilterResultsCompacted(res, allowed) ==
    LET kept == SelectSeq(res, LAMBDA r : r \in Range(allowed))
    IN  [i \in 1..Len(kept) |-> TRUE]

\* a variant of FilterResults that reads the server's list as positional
FilterResultsPositional(res, allowed) ==
    [i \in 1..Len(res) |-> i <= Len(allowed) /\ allowed[i] = res[i]]

\* results[i] = true iff slices.Contains(permissionFilterResponse.Result, resources[i])
FilterResults(res, allowed) ==
    [i \in 1..Len(res) |-> res[i] \in Range(allowed)]

\* a variant of FilterFinish that returns nil when there is nothing to report
FilterFinishNilWhenEmpty(res, body) ==
    LET resp == UnmarshalFilterResponse(body)
    IN  IF resp.err
        THEN [slice |-> NilSlice, err |-> ErrUnmarshal]
        ELSE IF Len(res) = 0
        THEN [slice |-> NilSlice, err |-> NilError]
        ELSE [slice |-> Slice(FilterResults(res, resp.Result)), err |-> NilError]

\* the filter form after the retrier reported success: decode, derive, return
FilterFinish(res, body) ==
    LET resp == UnmarshalFilterResponse(body)
    IN  IF resp.err
        THEN [slice |-> NilSlice, err |-> ErrUnmarshal]
        ELSE [slice |-> Slice(FilterResults(res, resp.Result)), err |-> NilError]

\* a variant of QueryFinish that reports whether decoding worked
QueryFinishAllowsDecoded(body) ==
    LET resp == UnmarshalQueryResponse(body)
    IN  IF resp.err
        THEN [allowed |-> FALSE, err |-> ErrUnmarshal]
        ELSE [allowed |-> TRUE, err |-> NilError]

\* the query form after the retrier reported success: decode, return
QueryFinish(body) ==
    LET resp == UnmarshalQueryResponse(body)
    IN  IF resp.err
        THEN [allowed |-> FALSE, err |-> ErrUnmarshal]
        ELSE [allowed |-> resp.Result, err |-> NilError]

\* a variant of FilterGiveUp that returns the allocated results with the error
FilterGiveUpKeepsResults(res) ==
    [slice |-> Slice([i \in 1..Len(res) |-> FALSE]), err |-> ErrSendFailed]

\* the filter form after the retrier gave up
FilterGiveUp(res) ==
    [slice |-> NilSlice, err |-> ErrSendFailed]

\* the query form after the retrier gave up
QueryGiveUp ==
    [allowed |-> FALSE, err |-> ErrSendFailed]

\* what a verbose client logs once the retrier reported success: the response,
\* and the decoded response unless decoding failed
FinishLogs(v, err) ==
    WhenVerbose(v, LogReceived)
        \o (IF err = NilError THEN WhenVerbose(v, LogUnmarshalled) ELSE << >>)

\* a variant of ProbeAssign that keeps the body an earlier attempt left
ProbeKeepsEarlierBody(old, new) ==
    IF old.type # "none" THEN old ELSE new

\* responseBody, _, err = sendHTTPRequest(...): the probe overwrites responseBody
ProbeAssign(old, new) ==
    new

-----------------------------------------------------------------------------
(* The transport invoker and the bounded retrier *)

\* the seconds an exchange takes: an answer comes at once or just within the
\* request timeout t; a failure comes at once or is the request timeout itself
AnswerDelays(t) == {0, t - 1}

FailureDelays(t) == {0, t}


\* one request/response exchange: what it returns and after how many seconds.  A
\* cancelled context fails the exchange at once; otherwise the server answers 200
\* within the request timeout, or the exchange fails (no connection, a status other
\* than 200, the request timeout)
sendHTTPRequest ==
    IF ctxCancelled
    THEN {[ok |-> FALSE, body |-> NoBody, d |-> 0]}
    ELSE {[ok |-> TRUE, body |-> b, d |-> d] :
              b \in ServerBodies, d \in AnswerDelays(requestTimeout)}
         \cup {[ok |-> FALSE, body |-> b, d |-> d] :
                   b \in ErrorBodies, d \in FailureDelays(requestTimeout)}

\* the retrier's loop condition: the deadline has passed
DeadlinePassed(t) ==
    t > RetryTimeout

-----------------------------------------------------------------------------
(* The state machine *)

\* a caller that is not in a call
IdleCall(k) ==
    [kind |-> k, pc |-> "idle", form |-> "none", resources |-> << >>, action |-> "",
     opts |-> NilOptions, url |-> << >>, body |-> NoRequest,
     responseBody |-> NoBody, now |-> 0, attempts |-> 0, requestsSent |-> 0,
     served |-> NoBody, retBool |-> FALSE, retSlice |-> NilSlice, retErr |-> NilError,
     logs |-> << >>, sent |-> {}]

Callers == {1, 2}

\* NewHTTPClient(logger, address, queryPath, filterPath, timeout, verbose, override, skipTLSVerify)
NewHTTPClient(a, qp, fp, t, v, o, skip) ==
    /\ address = a
    /\ permissionQueryPath = qp
    /\ permissionFilterPath = fp
    /\ requestTimeout = (IF t = 0 THEN DefaultRequestTimeOut ELSE t)
    /\ verbose = v
    /\ overrideHeaderValue = o
    /\ httpClient = NewHTTPTransport(requestTimeout, skip)

Init ==
    /\ \E a \in Addresses, qp \in QueryPaths, fp \in FilterPaths, t \in TimeoutArgs,
          v \in BOOLEAN, o \in OverrideValues, skip \in BOOLEAN :
           NewHTTPClient(a, qp, fp, t, v, o, skip)
    /\ logs = << >>
    /\ sent = {}
    /\ calls = [i \in Callers |-> IdleCall("http")]
    /\ verbose \in BOOLEAN
    /\ pc = "idle"
    /\ form = "none"
    /\ resources = << >>
    /\ action = ""
    /\ permissionOptions = NilOptions
    /\ ctxCancelled = FALSE
    /\ requestURL = << >>
    /\ requestBody = NoRequest
    /\ responseBody = NoBody
    /\ now = 0
    /\ attempts = 0
    /\ requestsSent = 0
    /\ served = NoBody
    /\ retBool = FALSE
    /\ retSlice = NilSlice
    /\ retErr = NilError

\* a variant of Enter that keeps the call's override value in the client
EnterStoresOverride(f, res, act, opts) ==
    /\ pc = "idle"
    /\ form' = f
    /\ resources' = res
    /\ action' = act
    /\ permissionOptions' = opts
    /\ ctxCancelled' = FALSE
    /\ responseBody' = NoBody
    /\ served' = NoBody
    /\ now' = 0
    /\ overrideHeaderValue' = opts.OverrideHeaderValue
    /\ UNCHANGED << address, permissionQueryPath, permissionFilterPath, httpClient,
                    requestTimeout, verbose, calls >>

\* what every entry into a call sets
Enter(f, res, act, opts) ==
    /\ pc = "idle"
    /\ form' = f
    /\ resources' = res
    /\ action' = act
    /\ permissionOptions' = opts
    /\ ctxCancelled' = FALSE
    /\ responseBody' = NoBody
    /\ served' = NoBody
    /\ now' = 0
    /\ UNCHANGED << config, calls >>

Panic ==
    /\ pc' = "panicked"
    /\ UNCHANGED << requestURL, requestBody, attempts, requestsSent,
                    retBool, retSlice, retErr, logs, sent >>

ReturnNow(b, s, e) ==
    /\ pc' = "done"
    /\ retBool' = b
    /\ retSlice' = s
    /\ retErr' = e

\* a variant of FirstAttempt whose probe sends its request twice
FirstAttemptSendsTwice(url, body) ==
    /\ requestURL' = url
    /\ requestBody' = body
    /\ logs' = WhenVerbose(verbose, LogSending)
    /\ pc' = "probe"
    /\ attempts' = 1
    /\ requestsSent' = 2
    /\ sent' = {ProbeRequest(url, body)}
    /\ UNCHANGED << retBool, retSlice, retErr >>

\* the retrier is entered and invokes the probe for the first time
FirstAttempt(url, body) ==
    /\ requestURL' = url
    /\ requestBody' = body
    /\ logs' = WhenVerbose(verbose, LogSending)
    /\ pc' = "probe"
    /\ attempts' = 1
    /\ requestsSent' = 1
    /\ sent' = {ProbeRequest(url, body)}
    /\ UNCHANGED << retBool, retSlice, retErr >>

QueryPermissionsMultiResources(res, act, opts) ==
    /\ Enter("filter", res, act, opts)
    /\ IF OverrideCheckPanics(opts) THEN Panic
       ELSE IF OverrideMatches(opts)
       THEN /\ ReturnNow(FALSE, Slice(AllowAll(Len(res))), NilError)
            /\ UNCHANGED << requestURL, requestBody, attempts, requestsSent,
                            logs, sent >>
       ELSE IF RequestBuildPanics(opts) THEN Panic
       ELSE FirstAttempt(Sprintf2(address, permissionFilterPath),
                         MarshalFilterRequest(res, act, opts.MemberIds))

QueryPermissions(resource, act, opts) ==
    /\ Enter("query", <<resource>>, act, opts)
    /\ IF OverrideCheckPanics(opts) THEN Panic
       ELSE IF OverrideMatches(opts)
       THEN /\ ReturnNow(TRUE, NilSlice, NilError)
            /\ UNCHANGED << requestURL, requestBody, attempts, requestsSent,
                            logs, sent >>
       ELSE IF RequestBuildPanics(opts) THEN Panic
       ELSE FirstAttempt(Sprintf2(address, permissionQueryPath),
                         MarshalQueryRequest(resource, act, opts.MemberIds))

\* a variant of ProbeFails that ends the call with the error of the first failure
ProbeFailsEndsCall ==
    /\ pc = "probe"
    /\ \E o \in sendHTTPRequest :
           /\ ~o.ok
           /\ responseBody' = ProbeAssign(responseBody, o.body)
           /\ now' = now + o.d
    /\ logs' = Append(logs, LogRetrying)
    /\ ReturnNow(FALSE, NilSlice, ErrSendFailed)
    /\ UNCHANGED << config, form, resources, action, permissionOptions, ctxCancelled,
                    requestURL, requestBody, attempts, requestsSent, served,
                    sent, calls >>

\* a probe whose exchange fails: it warns and reports false, and the retrier sleeps
ProbeFails ==
    /\ pc = "probe"
    /\ \E o \in sendHTTPRequest :
           /\ ~o.ok
           /\ responseBody' = ProbeAssign(responseBody, o.body)
           /\ now' = now + o.d
    /\ logs' = Append(logs, LogRetrying)
    /\ pc' = "sleep"
    /\ UNCHANGED << config, form, resources, action, permissionOptions, ctxCancelled,
                    requestURL, requestBody, attempts, requestsSent, served,
                    retBool, retSlice, retErr, sent, calls >>

\* a variant of ProbeSucceeds whose probe decodes the body itself and reports
\* false, so that the retrier goes on, when the body does not decode
ProbeSucceedsRetriesUndecodable ==
    /\ pc = "probe"
    /\ \E o \in sendHTTPRequest :
           /\ o.ok
           /\ responseBody' = ProbeAssign(responseBody, o.body)
           /\ served' = o.body
           /\ now' = now + o.d
    /\ LET f == FilterFinish(resources, responseBody')
           q == QueryFinish(responseBody')
           err == IF form = "filter" THEN f.err ELSE q.err
       IN  IF err = ErrUnmarshal
           THEN /\ pc' = "sleep"
                /\ logs' = Append(logs, LogRetrying)
                /\ UNCHANGED << retBool, retSlice, retErr >>
           ELSE /\ IF form = "filter"
                   THEN ReturnNow(FALSE, f.slice, f.err)
                   ELSE ReturnNow(q.allowed, NilSlice, q.err)
                /\ logs' = logs \o FinishLogs(verbose, retErr')
    /\ UNCHANGED << config, form, resources, action, permissionOptions, ctxCancelled,
                    requestURL, requestBody, attempts, requestsSent, sent, calls >>

\* a probe whose exchange succeeds: the retrier reports success and the call
\* decodes the body and returns
ProbeSucceeds ==
    /\ pc = "probe"
    /\ \E o \in sendHTTPRequest :
           /\ o.ok
           /\ responseBody' = ProbeAssign(responseBody, o.body)
           /\ served' = o.body
           /\ now' = now + o.d
    /\ IF form = "filter"
       THEN LET r == FilterFinish(resources, responseBody')
            IN  ReturnNow(FALSE, r.slice, r.err)
       ELSE LET r == QueryFinish(responseBody')
            IN  ReturnNow(r.allowed, NilSlice, r.err)
    /\ logs' = logs \o FinishLogs(verbose, retErr')
    /\ UNCHANGED << config, form, resources, action, permissionOptions, ctxCancelled,
                    requestURL, requestBody, attempts, requestsSent, sent, calls >>

\* the poll interval has passed and the deadline has not: the next attempt
RetryNextAttempt ==
    /\ pc = "sleep"
    /\ ~DeadlinePassed(now + RetryInterval)
    /\ now' = now + RetryInterval
    /\ pc' = "probe"
    /\ attempts' = attempts + 1
    /\ requestsSent' = requestsSent + 1
    /\ sent' = sent \cup {ProbeRequest(requestURL, requestBody)}
    /\ UNCHANGED << config, form, resources, action, permissionOptions, ctxCancelled,
                    requestURL, requestBody, responseBody, served,
                    retBool, retSlice, retErr, logs, calls >>

\* the poll interval has passed and so has the deadline: the retrier reports
\* failure and the call returns its default result with the wrapped error
RetryTimesOut ==
    /\ pc = "sleep"
    /\ DeadlinePassed(now + RetryInterval)
    /\ now' = now + RetryInterval
    /\ IF form = "filter"
       THEN LET r == FilterGiveUp(resources)
            IN  ReturnNow(FALSE, r.slice, r.err)
       ELSE LET r == QueryGiveUp
            IN  ReturnNow(r.allowed, NilSlice, r.err)
    /\ logs' = logs \o WhenVerbose(verbose, LogSendFailed)
    /\ UNCHANGED << config, form, resources, action, permissionOptions, ctxCancelled,
                    requestURL, requestBody, responseBody, attempts, requestsSent,
                    served, sent, calls >>

\* the caller cancels the context of the running call; e seconds of a pending
\* exchange have passed by then
Cancel(e) ==
    /\ pc \in {"probe", "sleep"}
    /\ ~ctxCancelled
    /\ ctxCancelled' = TRUE
    /\ now' = IF pc = "probe" THEN now + e ELSE now
    /\ UNCHANGED << config, pc, form, resources, action, permissionOptions,
                    requestURL, requestBody, responseBody, attempts, requestsSent,
                    served, retBool, retSlice, retErr, logs, sent, calls >>

\* the caller takes the returned pair; the client is ready for the next call
Return ==
    /\ pc = "done"
    /\ pc' = "idle"
    /\ form' = "none"
    /\ resources' = << >>
    /\ action' = ""
    /\ permissionOptions' = NilOptions
    /\ ctxCancelled' = FALSE
    /\ requestURL' = << >>
    /\ logs' = << >>
    /\ sent' = {}
    /\ UNCHANGED calls
    /\ requestBody' = NoRequest
    /\ responseBody' = NoBody
    /\ now' = 0
    /\ attempts' = 0
    /\ requestsSent' = 0
    /\ served' = NoBody
    /\ retBool' = FALSE
    /\ retSlice' = NilSlice
    /\ retErr' = NilError
    /\ UNCHANGED config

Next ==
    \/ \E res \in ResourceLists, act \in CallActions,
          opts \in PermissionOptions \cup {NilOptions} :
           QueryPermissionsMultiResources(res, act, opts)
    \/ \E resource \in ResourceIds, act \in CallActions,
          opts \in PermissionOptions \cup {NilOptions} :
           QueryPermissions(resource, act, opts)
    \/ ProbeFails
    \/ ProbeSucceeds
    \/ RetryNextAttempt
    \/ RetryTimesOut
    \/ \E e \in AnswerDelays(requestTimeout) : Cancel(e)
    \/ Return

Spec == Init /\ [][Next]_vars

-----------------------------------------------------------------------------
(* Calls as values: the steps of one call on its own locals, for several callers *)

\* the variables of the single call above
single == << pc, form, resources, action, permissionOptions, ctxCancelled,
             requestURL, requestBody, responseBody, now, attempts, requestsSent,
             served, retBool, retSlice, retErr, logs, sent >>

SingleIdle ==
    /\ pc = "idle"
    /\ form = "none"
    /\ resources = << >>
    /\ action = ""
    /\ permissionOptions = NilOptions
    /\ ctxCancelled = FALSE
    /\ requestURL = << >>
    /\ requestBody = NoRequest
    /\ responseBody = NoBody
    /\ now = 0
    /\ attempts = 0
    /\ requestsSent = 0
    /\ served = NoBody
    /\ retBool = FALSE
    /\ retSlice = NilSlice
    /\ retErr = NilError
    /\ logs = << >>
    /\ sent = {}

\* a variant of NopResults that leaves the last resource denied
NopResultsButLast(n) == [i \in 1..n |-> i < n]

\* NopClient.QueryPermissionsMultiResources: make([]bool, len(resources)), all set
NopResults(n) == [i \in 1..n |-> TRUE]

\* NopClient: both forms log when verbose and allow
NopCall(c, v, f, res) ==
    [c EXCEPT !.pc = "done",
              !.logs = WhenVerbose(v, LogSkipping),
              !.retBool = (f = "query"),
              !.retSlice = IF f = "filter" THEN Slice(NopResults(Len(res)))
                           ELSE NilSlice,
              !.retErr = NilError]

\* a call is entered with its arguments (the query form's resource as a sequence
\* of one) by a client of verbose flag v and runs up to its first attempt
CallEnter(c, v, f, res, act, opts) ==
    LET e == [c EXCEPT !.form = f, !.resources = res, !.action = act, !.opts = opts]
        url == Sprintf2(address, IF f = "filter" THEN permissionFilterPath
                                 ELSE permissionQueryPath)
        body == IF f = "filter"
                THEN MarshalFilterRequest(res, act, opts.MemberIds)
                ELSE MarshalQueryRequest(res[1], act, opts.MemberIds)
    IN  IF c.kind = "nop" THEN NopCall(e, v, f, res)
        ELSE IF OverrideCheckPanics(opts) THEN [e EXCEPT !.pc = "panicked"]
        ELSE IF OverrideMatches(opts)
        THEN [e EXCEPT !.pc = "done",
                       !.retBool = (f = "query"),
                       !.retSlice = IF f = "filter" THEN Slice(AllowAll(Len(res)))
                                    ELSE NilSlice,
                       !.retErr = NilError]
        ELSE IF RequestBuildPanics(opts) THEN [e EXCEPT !.pc = "panicked"]
        ELSE [e EXCEPT !.pc = "probe",
                       !.url = url,
                       !.body = body,
                       !.logs = WhenVerbose(v, LogSending),
                       !.attempts = 1,
                       !.requestsSent = 1,
                       !.sent = {ProbeRequest(url, body)}]

\* the probe's exchange o failed: warn, report false, the retrier sleeps
CallProbeFails(c, o) ==
    [c EXCEPT !.responseBody = ProbeAssign(@, o.body),
              !.now = @ + o.d,
              !.logs = Append(@, LogRetrying),
              !.pc = "sleep"]

\* the probe's exchange o got its 200: the retrier reports success
CallProbeReturns(c, o) ==
    [c EXCEPT !.responseBody = ProbeAssign(@, o.body),
              !.served = o.body,
              !.now = @ + o.d,
              !.pc = "decode"]

\* a variant of CallFinish whose verbose branch returns once the body is logged
CallFinishVerboseReturns(c, v, body) ==
    LET f == FilterFinish(c.resources, body)
        q == QueryFinish(body)
        err == IF c.form = "filter" THEN f.err ELSE q.err
    IN  IF v
        THEN [c EXCEPT !.pc = "done", !.retBool = FALSE, !.retSlice = NilSlice,
                       !.retErr = NilError, !.logs = @ \o <<LogReceived>>]
        ELSE [c EXCEPT !.pc = "done",
                       !.retBool = IF c.form = "filter" THEN FALSE ELSE q.allowed,
                       !.retSlice = IF c.form = "filter" THEN f.slice ELSE NilSlice,
                       !.retErr = err,
                       !.logs = @ \o FinishLogs(v, err)]

\* after the retrier's success: log when verbose, decode body, derive, return
CallFinish(c, v, body) ==
    LET f == FilterFinish(c.resources, body)
        q == QueryFinish(body)
        err == IF c.form = "filter" THEN f.err ELSE q.err
    IN  [c EXCEPT !.pc = "done",
                  !.retBool = IF c.form = "filter" THEN FALSE ELSE q.allowed,
                  !.retSlice = IF c.form = "filter" THEN f.slice ELSE NilSlice,
                  !.retErr = err,
                  !.logs = @ \o FinishLogs(v, err)]

\* the retrier's next iteration: the probe sends the call's request again
CallRetryNext(c) ==
    [c EXCEPT !.now = @ + RetryInterval,
              !.pc = "probe",
              !.attempts = @ + 1,
              !.requestsSent = @ + 1,
              !.sent = @ \cup {ProbeRequest(c.url, c.body)}]

\* the retrier reports failure: log when verbose, return the default and the error
CallGiveUp(c, v) ==
    LET f == FilterGiveUp(c.resources)
        q == QueryGiveUp
    IN  [c EXCEPT !.now = @ + RetryInterval,
                  !.pc = "done",
                  !.retBool = IF c.form = "filter" THEN FALSE ELSE q.allowed,
                  !.retSlice = IF c.form = "filter" THEN f.slice ELSE NilSlice,
                  !.retErr = IF c.form = "filter" THEN f.err ELSE q.err,
                  !.logs = @ \o WhenVerbose(v, LogSendFailed)]

\* the arguments of a call of either form
CallArgs ==
    [f : {"filter"}, res : ResourceLists, act : CallActions,
     opts : PermissionOptions \cup {NilOptions}]
        \cup [f : {"query"}, res : {<<r>> : r \in ResourceIds}, act : CallActions,
              opts : PermissionOptions \cup {NilOptions}]

-----------------------------------------------------------------------------
(* Two clients that differ in the verbose flag only, run side by side on the same
   arguments and the same exchanges *)

ClientKinds == {"http", "nop"}

\* the verbose flag of caller i's client
ClientVerbose(i) == i = 1

VerboseInit ==
    /\ \E a \in Addresses, qp \in QueryPaths, fp \in FilterPaths, t \in TimeoutArgs,
          o \in OverrideValues :
           NewHTTPClient(a, qp, fp, t, FALSE, o, FALSE)
    /\ SingleIdle
    /\ \E k \in ClientKinds : calls = [i \in Callers |-> IdleCall(k)]

\* each caller that is at pc p takes the step, the others stay
Both(p, step(_, _)) ==
    /\ \E i \in Callers : calls[i].pc = p
    /\ calls' = [i \in Callers |-> IF calls[i].pc = p THEN step(calls[i], i)
                                   ELSE calls[i]]
    /\ UNCHANGED << config, single >>

VEnter(a) ==
    LET step(c, i) == CallEnter(c, ClientVerbose(i), a.f, a.res, a.act, a.opts)
    IN  Both("idle", step)

VProbeFails(o) ==
    LET step(c, i) == CallProbeFails(c, o)
    IN  ~o.ok /\ Both("probe", step)

VProbeSucceeds(o) ==
    LET step(c, i) == CallFinish(CallProbeReturns(c, o), ClientVerbose(i),
                                 CallProbeReturns(c, o).responseBody)
    IN  o.ok /\ Both("probe", step)

VRetry ==
    LET step(c, i) == IF DeadlinePassed(c.now + RetryInterval)
                      THEN CallGiveUp(c, ClientVerbose(i))
                      ELSE CallRetryNext(c)
    IN  Both("sleep", step)

VReturn ==
    LET step(c, i) == IdleCall(c.kind)
    IN  Both("done", step)

VerboseNext ==
    \/ \E a \in CallArgs : VEnter(a)
    \/ \E o \in sendHTTPRequest : VProbeFails(o)
    \/ \E o \in sendHTTPRequest : VProbeSucceeds(o)
    \/ VRetry
    \/ VReturn

VerboseSpec == VerboseInit /\ [][VerboseNext]_vars

-----------------------------------------------------------------------------
(* Two callers of one client, their steps interleaved *)

\* what the concurrent callers ask for
ConcArgs ==
    {a \in CallArgs : /\ a.act = "read"
                      /\ a.res \in {<<"a">>, <<"a", "b">>}
                      /\ ~a.opts.isNil
                      /\ a.opts.MemberIds = << >>
                      /\ a.opts.OverrideHeaderValue \in OverrideValues}

\* the exchanges of the concurrent callers: answered or failed at once
ConcExchanges ==
    {o \in sendHTTPRequest :
        /\ o.d = 0
        /\ o.body \in {NoBody, BoolBody(TRUE), ListBody(<<"a">>), GarbageBody}}

ConcInit ==
    /\ \E a \in Addresses, qp \in QueryPaths, fp \in FilterPaths,
          o \in OverrideValues :
           NewHTTPClient(a, qp, fp, 0, TRUE, o, FALSE)
    /\ SingleIdle
    /\ calls = [i \in Callers |-> IdleCall("http")]

\* a variant of ResponseBodyOf for a buffer that the callers share
ResponseBodyOfFirst(cs, i) == cs[1].responseBody

\* the responseBody that caller i's decoding reads: the local of its own call
ResponseBodyOf(cs, i) == cs[i].responseBody

\* caller i's call takes one step to c
CallStep(i, c) ==
    /\ calls' = [calls EXCEPT ![i] = c]
    /\ UNCHANGED << config, single >>

CEnter(i, a) ==
    /\ calls[i].pc = "idle"
    /\ CallStep(i, CallEnter(calls[i], verbose, a.f, a.res, a.act, a.opts))

CProbeFails(i, o) ==
    /\ calls[i].pc = "probe"
    /\ ~o.ok
    /\ CallStep(i, CallProbeFails(calls[i], o))

CProbeReturns(i, o) ==
    /\ calls[i].pc = "probe"
    /\ o.ok
    /\ CallStep(i, CallProbeReturns(calls[i], o))

CFinish(i) ==
    /\ calls[i].pc = "decode"
    /\ CallStep(i, CallFinish(calls[i], verbose, ResponseBodyOf(calls, i)))

CRetryNext(i) ==
    /\ calls[i].pc = "sleep"
    /\ ~DeadlinePassed(calls[i].now + RetryInterval)
    /\ CallStep(i, CallRetryNext(calls[i]))

CGiveUp(i) ==
    /\ calls[i].pc = "sleep"
    /\ DeadlinePassed(calls[i].now + RetryInterval)
    /\ CallStep(i, CallGiveUp(calls[i], verbose))

ConcNext ==
    \E i \in Callers :
        \/ \E a \in ConcArgs : CEnter(i, a)
        \/ \E o \in ConcExchanges : CProbeFails(i, o)
        \/ \E o \in ConcExchanges : CProbeReturns(i, o)
        \/ CFinish(i)
        \/ CRetryNext(i)
        \/ CGiveUp(i)

ConcSpec == ConcInit /\ [][ConcNext]_vars

-----------------------------------------------------------------------------
(* The claims *)

\* the override bypass applies to the running call
BypassApplies ==
    /\ overrideHeaderValue # ""
    /\ ~permissionOptions.isNil
    /\ permissionOptions.OverrideHeaderValue = overrideHeaderValue

\* the call got a status-200 response
GotResponse == served.type # "none"

AllTrue(s) == \A i \in 1..Len(s) : s[i]

\* C1: when the configured override value is non-empty and equals the options'
\* override value, QueryPermissions returns (true, nil) and
\* QueryPermissionsMultiResources returns len(resources) trues with a nil error,
\* and the call never reaches the transport: no probe runs and no request is sent.
C1_BypassAllowsWithoutIO ==
    BypassApplies =>
        /\ pc \in {"done"}
        /\ retErr = NilError
        /\ attempts = 0
        /\ requestsSent = 0
        /\ ~GotResponse
        /\ form = "query" => retBool
        /\ form = "filter" =>
               /\ ~retSlice.isNil
               /\ Len(retSlice.elems) = Len(resources)
               /\ AllTrue(retSlice.elems)

C1_Witness ==
    /\ pc = "done"
    /\ BypassApplies
    /\ form = "filter"
    /\ Len(resources) >= 2
    /\ retSlice.elems = <<TRUE, TRUE>>

\* C2: with an empty configured override value the bypass never matches: every
\* call that returns has gone through the transport, and whatever it allows was
\* allowed by the server's response.
C2_EmptyOverrideNeverBypasses ==
    (pc = "done" /\ overrideHeaderValue = "") =>
        /\ attempts >= 1
        /\ requestsSent >= 1
        /\ (form = "query" /\ retBool) => served = BoolBody(TRUE)
        /\ form = "filter" =>
               \A i \in 1..Len(retSlice.elems) :
                   retSlice.elems[i] =>
                       served.type = "list" /\ resources[i] \in Range(served.list)

C2_Witness ==
    /\ pc = "done"
    /\ overrideHeaderValue = ""
    /\ ~permissionOptions.isNil
    /\ permissionOptions.OverrideHeaderValue = ""
    /\ form = "query"
    /\ retBool
    /\ requestsSent >= 1

C4_FilterResultIsMembership ==
    (pc = "done" /\ form = "filter" /\ ~BypassApplies /\ retErr = NilError) =>
        /\ GotResponse
        /\ served.type \in {"list", "noresult"}
        /\ \A i \in 1..Len(resources) :
               retSlice.elems[i] <=> (\E k \in 1..Len(served.list) :
                                          served.list[k] = resources[i])
        /\ \A i, j \in 1..Len(resources) :
               resources[i] = resources[j] => retSlice.elems[i] = retSlice.elems[j]

C4_Witness ==
    /\ pc = "done"
    /\ form = "filter"
    /\ ~BypassApplies
    /\ retErr = NilError
    /\ resources = <<"a", "b">>
    /\ served = ListBody(<<"c", "b">>)
    /\ retSlice = Slice(<<FALSE, TRUE>>)

\* C5: on the non-bypass path, when the query request succeeded with status 200
\* and the body decodes as {result: b}, QueryPermissions returns exactly (b, nil).
C5_QueryReturnsServerDecision ==
    (pc = "done" /\ form = "query" /\ ~BypassApplies /\ served.type = "bool") =>
        /\ retErr = NilError
        /\ retBool = served.b

C5_Witness ==
    /\ pc = "done"
    /\ form = "query"
    /\ ~BypassApplies
    /\ served = BoolBody(FALSE)
    /\ retBool = FALSE
    /\ retErr = NilError
    /\ requestsSent >= 1

\* C6: a call whose transport never succeeded within the retry window returns a
\* non-nil error, and every non-nil error comes with the default result: false
\* for QueryPermissions, a nil slice for QueryPermissionsMultiResources.
C6_FailureReturnsDefault ==
    pc = "done" =>
        /\ (~BypassApplies /\ ~GotResponse) => retErr = ErrSendFailed
        /\ retErr # NilError => (retBool = FALSE /\ retSlice = NilSlice)

C6_Witness ==
    /\ pc = "done"
    /\ form = "filter"
    /\ Len(resources) >= 2
    /\ ~GotResponse
    /\ attempts >= 2
    /\ retErr = ErrSendFailed
    /\ retSlice = NilSlice

\* C7: a call that succeeds after failed attempts returns what a call returns
\* whose first attempt got the same response: the returned pair is the one
\* derived from the successful response alone, whatever the failed attempts left.
C7_RetriedEqualsImmediate ==
    (pc = "done" /\ ~BypassApplies /\ GotResponse) =>
        IF form = "filter"
        THEN /\ retSlice = FilterFinish(resources, served).slice
             /\ retErr = FilterFinish(resources, served).err
        ELSE /\ retBool = QueryFinish(served).allowed
             /\ retErr = QueryFinish(served).err

C7_Witness ==
    /\ pc = "done"
    /\ ~BypassApplies
    /\ attempts >= 3
    /\ now <= RetryTimeout
    /\ form = "query"
    /\ served = BoolBody(FALSE)
    /\ retBool = FALSE
    /\ retErr = NilError

\* C8 as stated: once the context of a running call is cancelled, no further
\* attempt is started.
C8_NoAttemptAfterCancel ==
    [][(ctxCancelled /\ pc \in {"probe", "sleep"}) => attempts' = attempts]_vars

\* C9 as stated, with the last poll interval allowed for: a call that gives up
\* has blocked no longer than the retry window.
C9_GivesUpWithinRetryWindow ==
    (pc = "done" /\ retErr = ErrSendFailed) => now <= RetryTimeout + RetryInterval

\* C10 as stated: no call panics.
C10_NeverPanics ==
    pc # "panicked"

\* the request the running call is to send, from its arguments and the client
ExpectedRequest ==
    [method |-> "POST",
     url |-> address \o (IF form = "query" THEN permissionQueryPath
                         ELSE permissionFilterPath),
     body |-> IF form = "query"
              THEN MarshalQueryRequest(resources[1], action,
                                       permissionOptions.MemberIds)
              ELSE MarshalFilterRequest(resources, action,
                                        permissionOptions.MemberIds),
     headers |-> [ContentType |-> "application/json", UserAgent |-> "UserAgent"],
     cookies |-> << >>,
     expectedStatus |-> "200"]

\* the body of the 200 response does not decode for the running form
Undecodable ==
    IF form = "query" THEN served.type \notin {"bool", "noresult"}
    ELSE served.type \notin {"list", "noresult"}

\* the bypass applies to the call c
CallBypasses(c) ==
    /\ overrideHeaderValue # ""
    /\ ~c.opts.isNil
    /\ c.opts.OverrideHeaderValue = overrideHeaderValue

\* what a caller can tell of a call: where it is, what it sent, what it returned
Observable(c) ==
    [pc |-> c.pc, sent |-> c.sent, requestsSent |-> c.requestsSent,
     attempts |-> c.attempts, retBool |-> c.retBool, retSlice |-> c.retSlice,
     retErr |-> c.retErr]

\* C11: a NopClient's call returns (true, nil) in the query form and
\* len(resources) trues in a non-nil slice with a nil error in the batch form,
\* for every resource, action and options and either verbose flag, and sends
\* nothing.
C11_NopAlwaysAllows ==
    \A i \in Callers :
        calls[i].kind = "nop" =>
            /\ calls[i].pc \in {"idle", "done"}
            /\ calls[i].requestsSent = 0
            /\ calls[i].sent = {}
            /\ calls[i].pc = "done" =>
                   /\ calls[i].retErr = NilError
                   /\ calls[i].form = "query" => calls[i].retBool
                   /\ calls[i].form = "filter" =>
                          /\ ~calls[i].retSlice.isNil
                          /\ Len(calls[i].retSlice.elems) = Len(calls[i].resources)
                          /\ AllTrue(calls[i].retSlice.elems)

C11_Witness ==
    /\ calls[1].kind = "nop"
    /\ calls[1].pc = "done"
    /\ calls[1].form = "filter"
    /\ calls[1].opts = NilOptions
    /\ calls[1].retSlice = Slice(<<TRUE, TRUE>>)
    /\ calls[1].logs = <<LogSkipping>>
    /\ calls[2].pc = "done"
    /\ calls[2].retSlice = Slice(<<TRUE, TRUE>>)
    /\ calls[2].logs = << >>

\* C12: under every interleaving of two callers of one client, what a call
\* decodes is the body of its own 200 response, what it sent is its own request,
\* and what it returns is derived from its own arguments and its own response.
C12_ConcurrentCallsIndependent ==
    \A i \in Callers :
        LET c == calls[i]
        IN  /\ c.pc = "decode" => c.responseBody = c.served
            /\ c.requestsSent >= 1 =>
                   c.sent = {ProbeRequest(
                       address \o (IF c.form = "query" THEN permissionQueryPath
                                   ELSE permissionFilterPath),
                       IF c.form = "query"
                       THEN MarshalQueryRequest(c.resources[1], c.action,
                                                c.opts.MemberIds)
                       ELSE MarshalFilterRequest(c.resources, c.action,
                                                 c.opts.MemberIds))}
            /\ c.pc = "done" =>
                   IF CallBypasses(c)
                   THEN /\ c.retErr = NilError
                        /\ c.requestsSent = 0
                        /\ IF c.form = "query" THEN c.retBool
                           ELSE c.retSlice = Slice([k \in 1..Len(c.resources) |-> TRUE])
                   ELSE IF c.served = NoBody
                   THEN /\ c.retErr = ErrSendFailed
                        /\ c.retBool = FALSE
                        /\ c.retSlice = NilSlice
                   ELSE IF c.form = "query"
                   THEN /\ c.retSlice = NilSlice
                        /\ IF c.served.type = "bool"
                           THEN c.retErr = NilError /\ c.retBool = c.served.b
                           ELSE c.retErr = ErrUnmarshal /\ c.retBool = FALSE
                   ELSE /\ c.retBool = FALSE
                        /\ IF c.served.type = "list"
                           THEN /\ c.retErr = NilError
                                /\ c.retSlice =
                                       Slice([k \in 1..Len(c.resources) |->
                                                c.resources[k] \in Range(c.served.list)])
                           ELSE c.retErr = ErrUnmarshal /\ c.retSlice = NilSlice

C12_Witness ==
    /\ calls[1].pc = "done"
    /\ calls[1].form = "query"
    /\ calls[1].attempts >= 2
    /\ calls[1].retBool
    /\ calls[2].pc = "decode"
    /\ calls[2].form = "filter"
    /\ calls[2].resources = <<"a", "b">>
    /\ calls[2].attempts >= 2
    /\ calls[2].responseBody = ListBody(<<"a">>)

\* C18: two clients that differ in the verbose flag only, given the same
\* arguments and the same exchanges, are at the same place after every step, have
\* sent the same requests and return the same result and error; this for both
\* forms of HTTPClient and of NopClient.
C18_VerboseKeepsControlFlow ==
    Observable(calls[1]) = Observable(calls[2])

C18_Witness ==
    /\ calls[1].kind = "http"
    /\ calls[1].pc = "done"
    /\ calls[2].pc = "done"
    /\ calls[1].attempts >= 2
    /\ calls[1].retErr = NilError
    /\ calls[1].form = "filter"
    /\ calls[1].retSlice = Slice(<<TRUE, FALSE>>)
    /\ calls[1].logs = <<LogSending, LogRetrying, LogReceived, LogUnmarshalled>>
    /\ calls[2].logs = <<LogRetrying>>

\* C13: a failed attempt does not end the call: the probe only warns and, while
\* the retry window lasts, the retrier invokes the probe again; the error
\* 'Failed to send HTTP request to OPA' is returned only by the retrier giving
\* up after the 6-second window.
C13_FailedAttemptIsRetried ==
    [][ /\ (pc = "probe" /\ pc' # "probe" /\ ~GotResponse') =>
               /\ pc' = "sleep"
               /\ logs' = Append(logs, LogRetrying)
               /\ retErr' = NilError
        /\ (pc = "sleep" /\ pc' # "sleep" /\ now' <= RetryTimeout) =>
               /\ pc' = "probe"
               /\ attempts' = attempts + 1
        /\ (retErr' = ErrSendFailed /\ retErr # ErrSendFailed) =>
               /\ pc = "sleep"
               /\ pc' = "done"
               /\ now' > RetryTimeout ]_vars

C13_Witness ==
    /\ pc = "probe"
    /\ attempts >= 2
    /\ \E k \in 1..Len(logs) : logs[k] = LogRetrying
    /\ retErr = NilError
    /\ now <= RetryTimeout

\* C14: a 200 response whose body does not decode ends the call at once with
\* the unmarshal error and the default result; after a 200 response no further
\* attempt runs and no further request is sent.
C14_DecodeFailureNotRetried ==
    /\ GotResponse => (pc = "done" /\ now <= RetryTimeout + requestTimeout)
    /\ (GotResponse /\ Undecodable) =>
           /\ retErr = ErrUnmarshal
           /\ retBool = FALSE
           /\ retSlice = NilSlice
    /\ retErr = ErrUnmarshal => (GotResponse /\ Undecodable)

C14_Witness ==
    /\ pc = "done"
    /\ served = GarbageBody
    /\ retErr = ErrUnmarshal
    /\ attempts = 2
    /\ requestsSent = 2

\* C15: every probe invocation sends exactly one request: the requests of a call
\* are counted with its probe invocations, one at a time, and none is sent once a
\* probe has reported success.
C15_OneRequestPerAttempt ==
    [][ /\ requestsSent' - requestsSent = attempts' - attempts
        /\ requestsSent' > requestsSent =>
               (pc' = "probe" /\ requestsSent' = requestsSent + 1)
        /\ GotResponse => requestsSent' <= requestsSent ]_vars

C15_Witness ==
    /\ pc = "done"
    /\ GotResponse
    /\ attempts = 3
    /\ requestsSent = 3

\* C16: an empty resources sequence yields an empty, non-nil result whenever the
\* call succeeds; only the bypass does so without a request, otherwise the filter
\* request goes out with zero resources, through the same retries, and a failure
\* returns nil with the error.
C16_EmptyResources ==
    (form = "filter" /\ resources = << >> /\ pc \in {"probe", "sleep", "done"}) =>
        /\ BypassApplies <=> requestsSent = 0
        /\ ~BypassApplies =>
               /\ sent = {ExpectedRequest}
               /\ requestBody.resources = << >>
               /\ "resources" \in requestBody.omitted
        /\ pc = "done" =>
               IF retErr = NilError
               THEN retSlice = Slice(<< >>)
               ELSE retSlice = NilSlice

C16_Witness ==
    /\ pc = "done"
    /\ form = "filter"
    /\ resources = << >>
    /\ ~BypassApplies
    /\ attempts >= 2
    /\ retErr = NilError
    /\ retSlice = Slice(<< >>)

\* C17: no step of any call changes the client's address, paths, request timeout,
\* verbose flag, override value or HTTP client settings.
C17_ConfigReadOnly ==
    [][config' = config]_vars

C17_Witness ==
    /\ pc = "done"
    /\ attempts >= 2
    /\ retErr = ErrSendFailed
    /\ httpClient.Timeout = requestTimeout
    /\ httpClient.InsecureSkipVerify

\* C19: all attempts of a call send one and the same request: POST to the address
\* followed by the form's path, with the body marshalled from the arguments and
\* the two headers.
C19_SameRequestEveryAttempt ==
    (pc \in {"probe", "sleep", "done"} /\ requestsSent >= 1) =>
        /\ sent = {ExpectedRequest}
        /\ requestURL = ExpectedRequest.url
        /\ requestBody = ExpectedRequest.body

C19_Witness ==
    /\ pc = "probe"
    /\ attempts >= 3
    /\ form = "query"
    /\ sent = {ExpectedRequest}

\* C20: outside the bypass a 200 response without a result field gives
\* (false, nil), or len(resources) falses with a nil error, and whatever a call
\* allows was allowed in so many words by the 200 response.
C20_FailClosedOnMissingResult ==
    (pc = "done" /\ ~BypassApplies) =>
        /\ served = NoResultBody =>
               /\ retErr = NilError
               /\ retBool = FALSE
               /\ form = "filter" =>
                      /\ ~retSlice.isNil
                      /\ Len(retSlice.elems) = Len(resources)
                      /\ \A i \in 1..Len(resources) : ~retSlice.elems[i]
        /\ retBool => served = BoolBody(TRUE)
        /\ \A i \in 1..Len(retSlice.elems) :
               retSlice.elems[i] =>
                   (served.type = "list" /\ resources[i] \in Range(served.list))

C20_Witness ==
    /\ pc = "done"
    /\ ~BypassApplies
    /\ form = "filter"
    /\ Len(resources) = 2
    /\ served = NoResultBody
    /\ retErr = NilError
    /\ retSlice = Slice(<<FALSE, FALSE>>)

=============================================================================
